---- MODULE Spec2Model ----
(***************************************************************************)
(* ClutterSettings (clutter/clutter/clutter-settings.c): the settings      *)
(* singleton, its GObject properties, the three GSettings watchers (font,  *)
(* mouse, mouse accessibility) and what the ClutterBackend and the         *)
(* ClutterSeat observe.                                                    *)
(*                                                                         *)
(* Every C function is an operator on a context record                     *)
(*   [self, backend_font_options, signals, seat_a11y, crashed]             *)
(* that returns the context the function leaves behind; an action applies  *)
(* one entry point (a g_object_set call, _clutter_settings_set_backend, a  *)
(* GSettings "change-event" callback, the on-demand accessibility sync)    *)
(* to the current state.                                                   *)
(*                                                                         *)
(* Numbers: `resolution' is a gdouble in the code; the model keeps it as   *)
(* an exact integer count of 1/(1024*10) dots per inch, which represents   *)
(* every value the modelled inputs produce (font-dpi/1024, 96.0, -1.0 and  *)
(* their products with a scale that has at most one decimal digit).        *)
(***************************************************************************)
EXTENDS Integers, Sequences, FiniteSets, TLC

VARIABLES
  self,                  \* the ClutterSettings instance (struct _ClutterSettings)
  scale_env,             \* GDK_DPI_SCALE: <<>> when unset, else <<its characters>>
  backend_font_options,  \* the cairo font options the ClutterBackend holds
  signals,               \* what the last entry point emitted, in order
  seat_a11y,             \* the ClutterSeat's ClutterPointerA11ySettings
  crashed,               \* the process died (NULL GSettings dereferenced)
  lastOp,                \* the last entry point and the inputs it read
  budget                 \* entry points still to run in this behaviour

vars == <<self, scale_env, backend_font_options, signals, seat_a11y, crashed,
          lastOp, budget>>

\* ------------------------------------------------------------------ bounds

\* entry points per behaviour of Spec
MaxOps == 3
\* entry points per behaviour of SpecFontSync
MaxSyncOps == 2
\* entry points per behaviour of SpecFont
MaxFontOps == 4
\* how far past the end of a translation table a platform enum value may lie
MaxExcess == 1
MaxDpiOps == 3

\* ------------------------------------------------------------- C constants

NULL == "<NULL>"
DEFAULT_FONT_NAME == "Sans 12"

\* the unit of the model's `resolution': 1/(1024*10) dots per inch
ResUnit == 1024 * 10

\* cairo_font_options_create (): every field at its DEFAULT
CairoDefaultOptions ==
  [hint_metrics   |-> "CAIRO_HINT_METRICS_DEFAULT",
   hint_style     |-> "CAIRO_HINT_STYLE_DEFAULT",
   antialias      |-> "CAIRO_ANTIALIAS_DEFAULT",
   subpixel_order |-> "CAIRO_SUBPIXEL_ORDER_DEFAULT"]

\* the backend before any clutter_backend_set_font_options call
NoOptions ==
  [hint_metrics |-> NULL, hint_style |-> NULL, antialias |-> NULL,
   subpixel_order |-> NULL]

\* one emission: a signal on the backend, a font options push, or a
\* notify::<detail> on the settings object
Emission(sig, detail, options) ==
  [signal |-> sig, detail |-> detail, options |-> options]

\* ---------------------------------------------------------------- strtod

Digits == <<"0", "1", "2", "3", "4", "5", "6", "7", "8", "9">>

IsDigit(ch) == \E i \in 1..10 : Digits[i] = ch

DigitVal(ch) == (CHOOSE i \in 1..10 : Digits[i] = ch) - 1

RECURSIVE ScanDigits(_, _, _, _)
ScanDigits(s, i, num, den) ==
  IF i <= Len(s) /\ IsDigit(s[i])
    THEN ScanDigits(s, i + 1, num * 10 + DigitVal(s[i]), den * 10)
    ELSE [next |-> i, num |-> num, den |-> den]

\* g_ascii_strtod (nptr, NULL) on a sequence of characters: the longest
\* prefix [sign] digits [. digits] as the rational num/den; 0 when the
\* prefix holds no digit (an unparseable value)
g_ascii_strtod(s) ==
  LET signed == Len(s) > 0 /\ s[1] \in {"-", "+"}
      start  == IF signed THEN 2 ELSE 1
      ip     == ScanDigits(s, start, 0, 1)
      dot    == ip.next <= Len(s) /\ s[ip.next] = "."
      fp     == IF dot THEN ScanDigits(s, ip.next + 1, ip.num, 1)
                       ELSE [next |-> ip.next, num |-> ip.num, den |-> 1]
      none   == ip.next = start /\ (~dot \/ fp.next = ip.next + 1)
      neg    == signed /\ s[1] = "-"
  IN  IF none THEN [num |-> 0, den |-> 1]
      ELSE [num |-> IF neg THEN 0 - fp.num ELSE fp.num, den |-> fp.den]

\* (int) x for x = n/d, d > 0: C truncates toward zero
TruncDiv(n, d) == IF n >= 0 THEN n \div d ELSE 0 - ((0 - n) \div d)

\* ------------------------------------------------------- the settings store

\* clutter_settings_init: the instance g_object_new returns.  The struct
\* is zero-filled by GObject, so the fields init does not assign are
\* NULL / 0.
clutter_settings_init ==
  [backend               |-> NULL,
   font_settings         |-> NULL,
   mouse_settings        |-> NULL,
   mouse_a11y_settings   |-> NULL,
   resolution            |-> (0 - 1) * ResUnit,
   font_dpi              |-> 0 - 1,
   unscaled_font_dpi     |-> 0 - 1,
   double_click_time     |-> 250,
   double_click_distance |-> 5,
   dnd_drag_threshold    |-> 8,
   font_name             |-> DEFAULT_FONT_NAME,
   xft_antialias         |-> 0 - 1,
   xft_hinting           |-> 0 - 1,
   xft_hint_style        |-> NULL,
   xft_rgba              |-> NULL,
   long_press_duration   |-> 500,
   password_hint_time    |-> 0]

\* clutter_backend_set_font_options (self->backend, options)
clutter_backend_set_font_options(c, options) ==
  [c EXCEPT !.backend_font_options = options,
            !.signals = Append(@, Emission("set-font-options", NULL, options))]

\* g_signal_emit_by_name (self->backend, name)
g_signal_emit_by_name(c, name) ==
  [c EXCEPT !.signals = Append(@, Emission(name, NULL, NoOptions))]

\* variant: the subpixel order is tested before antialias == 0
settings_update_font_options_subpixel_first(c) ==
  LET s == c.self
      hint_style ==
        IF s.xft_hinting >= 0 /\ s.xft_hint_style = NULL
          THEN "CAIRO_HINT_STYLE_NONE"
        ELSE IF s.xft_hint_style # NULL
          THEN IF s.xft_hint_style = "hintnone" THEN "CAIRO_HINT_STYLE_NONE"
               ELSE IF s.xft_hint_style = "hintslight" THEN "CAIRO_HINT_STYLE_SLIGHT"
               ELSE IF s.xft_hint_style = "hintmedium" THEN "CAIRO_HINT_STYLE_MEDIUM"
               ELSE IF s.xft_hint_style = "hintfull" THEN "CAIRO_HINT_STYLE_FULL"
               ELSE "CAIRO_HINT_STYLE_NONE"
        ELSE "CAIRO_HINT_STYLE_NONE"
      subpixel_order ==
        IF s.xft_rgba # NULL
          THEN IF s.xft_rgba = "rgb" THEN "CAIRO_SUBPIXEL_ORDER_RGB"
               ELSE IF s.xft_rgba = "bgr" THEN "CAIRO_SUBPIXEL_ORDER_BGR"
               ELSE IF s.xft_rgba = "vrgb" THEN "CAIRO_SUBPIXEL_ORDER_VRGB"
               ELSE IF s.xft_rgba = "vbgr" THEN "CAIRO_SUBPIXEL_ORDER_VBGR"
               ELSE "CAIRO_SUBPIXEL_ORDER_DEFAULT"
          ELSE "CAIRO_SUBPIXEL_ORDER_DEFAULT"
      antialias_mode ==
        IF subpixel_order # "CAIRO_SUBPIXEL_ORDER_DEFAULT"
          THEN "CAIRO_ANTIALIAS_SUBPIXEL"
        ELSE IF s.xft_antialias >= 0 /\ s.xft_antialias = 0
          THEN "CAIRO_ANTIALIAS_NONE"
        ELSE IF s.xft_antialias >= 0
          THEN "CAIRO_ANTIALIAS_GRAY"
        ELSE "CAIRO_ANTIALIAS_GRAY"
  IN  IF s.backend = NULL THEN c
      ELSE clutter_backend_set_font_options(c,
             [hint_metrics   |-> "CAIRO_HINT_METRICS_ON",
              hint_style     |-> hint_style,
              antialias      |-> antialias_mode,
              subpixel_order |-> subpixel_order])

settings_update_font_options(c) ==
  LET s == c.self
      hint_style ==
        IF s.xft_hinting >= 0 /\ s.xft_hint_style = NULL
          THEN "CAIRO_HINT_STYLE_NONE"
        ELSE IF s.xft_hint_style # NULL
          THEN IF s.xft_hint_style = "hintnone" THEN "CAIRO_HINT_STYLE_NONE"
               ELSE IF s.xft_hint_style = "hintslight" THEN "CAIRO_HINT_STYLE_SLIGHT"
               ELSE IF s.xft_hint_style = "hintmedium" THEN "CAIRO_HINT_STYLE_MEDIUM"
               ELSE IF s.xft_hint_style = "hintfull" THEN "CAIRO_HINT_STYLE_FULL"
               ELSE "CAIRO_HINT_STYLE_NONE"
        ELSE "CAIRO_HINT_STYLE_NONE"
      subpixel_order ==
        IF s.xft_rgba # NULL
          THEN IF s.xft_rgba = "rgb" THEN "CAIRO_SUBPIXEL_ORDER_RGB"
               ELSE IF s.xft_rgba = "bgr" THEN "CAIRO_SUBPIXEL_ORDER_BGR"
               ELSE IF s.xft_rgba = "vrgb" THEN "CAIRO_SUBPIXEL_ORDER_VRGB"
               ELSE IF s.xft_rgba = "vbgr" THEN "CAIRO_SUBPIXEL_ORDER_VBGR"
               ELSE "CAIRO_SUBPIXEL_ORDER_DEFAULT"
          ELSE "CAIRO_SUBPIXEL_ORDER_DEFAULT"
      antialias_mode ==
        IF s.xft_antialias >= 0 /\ s.xft_antialias = 0
          THEN "CAIRO_ANTIALIAS_NONE"
        ELSE IF subpixel_order # "CAIRO_SUBPIXEL_ORDER_DEFAULT"
          THEN "CAIRO_ANTIALIAS_SUBPIXEL"
        ELSE IF s.xft_antialias >= 0
          THEN "CAIRO_ANTIALIAS_GRAY"
        ELSE "CAIRO_ANTIALIAS_GRAY"
  IN  IF s.backend = NULL THEN c
      ELSE clutter_backend_set_font_options(c,
             [hint_metrics   |-> "CAIRO_HINT_METRICS_ON",
              hint_style     |-> hint_style,
              antialias      |-> antialias_mode,
              subpixel_order |-> subpixel_order])

\* variant: the backend is not tested
settings_update_font_name_unguarded(c) ==
  g_signal_emit_by_name(c, "font-changed")

settings_update_font_name(c) ==
  IF c.self.backend # NULL
    THEN g_signal_emit_by_name(c, "font-changed")
    ELSE c

\* variant: GDK_DPI_SCALE is not applied
settings_update_resolution_unscaled(c) ==
  LET r == [c EXCEPT !.self.resolution =
              IF c.self.font_dpi > 0 THEN c.self.font_dpi * 10 ELSE 96 * ResUnit]
  IN  IF c.self.backend # NULL
        THEN g_signal_emit_by_name(r, "resolution-changed")
        ELSE r

\* font_dpi / 1024.0 is font_dpi * 10 units of 1/(1024*10); the product
\* with the scale is exact for the scales of EnvValues
settings_update_resolution(c) ==
  LET resolution == IF c.self.font_dpi > 0
                      THEN c.self.font_dpi * 10
                      ELSE 96 * ResUnit
      scale      == IF scale_env # <<>>
                      THEN g_ascii_strtod(scale_env[1])
                      ELSE [num |-> 0, den |-> 1]
      scaled     == IF scale_env # <<>> /\ scale.num # 0 /\ resolution > 0
                      THEN (resolution * scale.num) \div scale.den
                      ELSE resolution
      r          == [c EXCEPT !.self.resolution = scaled]
  IN  IF c.self.backend # NULL
        THEN g_signal_emit_by_name(r, "resolution-changed")
        ELSE r

\* the property names of clutter_settings_class_init, by PROP_ id
TimingProps == {"double-click-time", "double-click-distance",
                "dnd-drag-threshold", "long-press-duration",
                "password-hint-time"}
FontOptionProps == {"font-antialias", "font-hinting", "font-hint-style",
                    "font-subpixel-order"}
DpiProps == {"font-dpi", "unscaled-font-dpi"}
Props == TimingProps \cup FontOptionProps \cup DpiProps \cup {"font-name"}

\* variant: "unscaled-font-dpi" is stored in unscaled_font_dpi
clutter_settings_set_property_own_field(c, prop_id, value) ==
  CASE prop_id = "double-click-time" ->
         [c EXCEPT !.self.double_click_time = value]
    [] prop_id = "double-click-distance" ->
         [c EXCEPT !.self.double_click_distance = value]
    [] prop_id = "dnd-drag-threshold" ->
         [c EXCEPT !.self.dnd_drag_threshold = value]
    [] prop_id = "font-name" ->
         settings_update_font_name([c EXCEPT !.self.font_name = value])
    [] prop_id = "font-antialias" ->
         settings_update_font_options([c EXCEPT !.self.xft_antialias = value])
    [] prop_id = "font-dpi" ->
         settings_update_resolution([c EXCEPT !.self.font_dpi = value])
    [] prop_id = "font-hinting" ->
         settings_update_font_options([c EXCEPT !.self.xft_hinting = value])
    [] prop_id = "font-hint-style" ->
         settings_update_font_options([c EXCEPT !.self.xft_hint_style = value])
    [] prop_id = "font-subpixel-order" ->
         settings_update_font_options([c EXCEPT !.self.xft_rgba = value])
    [] prop_id = "long-press-duration" ->
         [c EXCEPT !.self.long_press_duration = value]
    [] prop_id = "password-hint-time" ->
         [c EXCEPT !.self.password_hint_time = value]
    [] prop_id = "unscaled-font-dpi" ->
         settings_update_resolution([c EXCEPT !.self.unscaled_font_dpi = value])
    [] OTHER -> c

clutter_settings_set_property(c, prop_id, value) ==
  CASE prop_id = "double-click-time" ->
         [c EXCEPT !.self.double_click_time = value]
    [] prop_id = "double-click-distance" ->
         [c EXCEPT !.self.double_click_distance = value]
    [] prop_id = "dnd-drag-threshold" ->
         [c EXCEPT !.self.dnd_drag_threshold = value]
    [] prop_id = "font-name" ->
         settings_update_font_name([c EXCEPT !.self.font_name = value])
    [] prop_id = "font-antialias" ->
         settings_update_font_options([c EXCEPT !.self.xft_antialias = value])
    [] prop_id = "font-dpi" ->
         settings_update_resolution([c EXCEPT !.self.font_dpi = value])
    [] prop_id = "font-hinting" ->
         settings_update_font_options([c EXCEPT !.self.xft_hinting = value])
    [] prop_id = "font-hint-style" ->
         settings_update_font_options([c EXCEPT !.self.xft_hint_style = value])
    [] prop_id = "font-subpixel-order" ->
         settings_update_font_options([c EXCEPT !.self.xft_rgba = value])
    [] prop_id = "long-press-duration" ->
         [c EXCEPT !.self.long_press_duration = value]
    [] prop_id = "password-hint-time" ->
         [c EXCEPT !.self.password_hint_time = value]
    [] prop_id = "unscaled-font-dpi" ->
         settings_update_resolution([c EXCEPT !.self.font_dpi = value])
    [] OTHER -> c

\* variant: an unset or empty font name reads as DEFAULT_FONT_NAME
clutter_settings_get_property_fallback(s, prop_id) ==
  CASE prop_id = "double-click-time"     -> s.double_click_time
    [] prop_id = "double-click-distance" -> s.double_click_distance
    [] prop_id = "dnd-drag-threshold"    -> s.dnd_drag_threshold
    [] prop_id = "font-name"             ->
         IF s.font_name \in {NULL, ""} THEN DEFAULT_FONT_NAME ELSE s.font_name
    [] prop_id = "font-antialias"        -> s.xft_antialias
    [] prop_id = "font-dpi"              -> TruncDiv(s.resolution * 1024, ResUnit)
    [] prop_id = "font-hinting"          -> s.xft_hinting
    [] prop_id = "font-hint-style"       -> s.xft_hint_style
    [] prop_id = "font-subpixel-order"   -> s.xft_rgba
    [] prop_id = "long-press-duration"   -> s.long_press_duration
    [] prop_id = "password-hint-time"    -> s.password_hint_time
    [] OTHER -> NULL

\* variant: "font-dpi" reads the stored field
clutter_settings_get_property_stored_dpi(s, prop_id) ==
  CASE prop_id = "double-click-time"     -> s.double_click_time
    [] prop_id = "double-click-distance" -> s.double_click_distance
    [] prop_id = "dnd-drag-threshold"    -> s.dnd_drag_threshold
    [] prop_id = "font-name"             -> s.font_name
    [] prop_id = "font-antialias"        -> s.xft_antialias
    [] prop_id = "font-dpi"              -> s.font_dpi
    [] prop_id = "font-hinting"          -> s.xft_hinting
    [] prop_id = "font-hint-style"       -> s.xft_hint_style
    [] prop_id = "font-subpixel-order"   -> s.xft_rgba
    [] prop_id = "long-press-duration"   -> s.long_press_duration
    [] prop_id = "password-hint-time"    -> s.password_hint_time
    [] OTHER -> NULL

\* "unscaled-font-dpi" is G_PARAM_WRITABLE only and has no case here
clutter_settings_get_property(s, prop_id) ==
  CASE prop_id = "double-click-time"     -> s.double_click_time
    [] prop_id = "double-click-distance" -> s.double_click_distance
    [] prop_id = "dnd-drag-threshold"    -> s.dnd_drag_threshold
    [] prop_id = "font-name"             -> s.font_name
    [] prop_id = "font-antialias"        -> s.xft_antialias
    [] prop_id = "font-dpi"              -> TruncDiv(s.resolution * 1024, ResUnit)
    [] prop_id = "font-hinting"          -> s.xft_hinting
    [] prop_id = "font-hint-style"       -> s.xft_hint_style
    [] prop_id = "font-subpixel-order"   -> s.xft_rgba
    [] prop_id = "long-press-duration"   -> s.long_press_duration
    [] prop_id = "password-hint-time"    -> s.password_hint_time
    [] OTHER -> NULL

\* the chain-up to GObject's dispatch_properties_changed: one
\* notify::<name> on the settings object per queued pspec
RECURSIVE EmitNotify(_, _)
EmitNotify(c, pspecs) ==
  IF pspecs = <<>> THEN c
  ELSE EmitNotify([c EXCEPT !.signals =
                     Append(@, Emission("notify", Head(pspecs), NoOptions))],
                  Tail(pspecs))

\* variant: "settings-changed" follows every notify
RECURSIVE SettingsChangedPerPspec(_, _)
SettingsChangedPerPspec(c, pspecs) ==
  IF pspecs = <<>> THEN c
  ELSE SettingsChangedPerPspec(
         LET n == [c EXCEPT !.signals =
                     Append(@, Emission("notify", Head(pspecs), NoOptions))]
         IN  IF c.self.backend # NULL
               THEN g_signal_emit_by_name(n, "settings-changed")
               ELSE n,
         Tail(pspecs))

clutter_settings_dispatch_properties_changed_per_field(c, pspecs) ==
  SettingsChangedPerPspec(c, pspecs)

clutter_settings_dispatch_properties_changed(c, pspecs) ==
  LET n == EmitNotify(c, pspecs)
  IN  IF c.self.backend # NULL
        THEN g_signal_emit_by_name(n, "settings-changed")
        ELSE n

\* the pspecs of a property list in the order GObject queues them: each
\* property once, at its first write
RECURSIVE NotifyQueue(_, _)
NotifyQueue(batch, queued) ==
  IF batch = <<>> THEN queued
  ELSE NotifyQueue(Tail(batch),
                   IF \E i \in 1..Len(queued) : queued[i] = Head(batch).name
                     THEN queued
                     ELSE Append(queued, Head(batch).name))

RECURSIVE SetProperties(_, _)
SetProperties(c, batch) ==
  IF batch = <<>> THEN c
  ELSE SetProperties(
         clutter_settings_set_property(c, Head(batch).name, Head(batch).value),
         Tail(batch))

\* g_object_set (self, name, value, ..., NULL): the notify queue is frozen,
\* set_property runs once per pair in order, and the thaw dispatches the
\* queued pspecs in one dispatch_properties_changed call
g_object_set(c, batch) ==
  IF batch = <<>> THEN c
  ELSE clutter_settings_dispatch_properties_changed(
         SetProperties(c, batch), NotifyQueue(batch, <<>>))

Write(name, value) == [name |-> name, value |-> value]

\* ------------------------------------------------------------ the watchers

\* the three GSettings schemas load_initial_settings looks up
FONT == "org.gnome.desktop.interface"
MOUSE == "org.gnome.desktop.peripherals.mouse"
MOUSE_A11Y == "org.gnome.desktop.a11y.mouse"
Schemas == {FONT, MOUSE, MOUSE_A11Y}

\* org.gnome.desktop.GDesktopFontAntialiasingMode -> cairo, font-antialias
antialiasings ==
  << [cairo_antialias |-> "CAIRO_ANTIALIAS_NONE",     clutter_font_antialias |-> 0],
     [cairo_antialias |-> "CAIRO_ANTIALIAS_GRAY",     clutter_font_antialias |-> 1],
     [cairo_antialias |-> "CAIRO_ANTIALIAS_SUBPIXEL", clutter_font_antialias |-> 1] >>

\* org.gnome.desktop.GDesktopFontHinting -> cairo, font-hint-style
hintings ==
  << [cairo_hint_style |-> "CAIRO_HINT_STYLE_NONE",   clutter_font_hint_style |-> "hintnone"],
     [cairo_hint_style |-> "CAIRO_HINT_STYLE_SLIGHT", clutter_font_hint_style |-> "hintslight"],
     [cairo_hint_style |-> "CAIRO_HINT_STYLE_MEDIUM", clutter_font_hint_style |-> "hintmedium"],
     [cairo_hint_style |-> "CAIRO_HINT_STYLE_FULL",   clutter_font_hint_style |-> "hintfull"] >>

\* org.gnome.desktop.GDesktopFontRgbaOrder -> cairo, font-subpixel-order
rgba_orders ==
  << [cairo_subpixel_order |-> "CAIRO_SUBPIXEL_ORDER_RGB",  clutter_font_subpixel_order |-> "rgb"],
     [cairo_subpixel_order |-> "CAIRO_SUBPIXEL_ORDER_RGB",  clutter_font_subpixel_order |-> "rgb"],
     [cairo_subpixel_order |-> "CAIRO_SUBPIXEL_ORDER_BGR",  clutter_font_subpixel_order |-> "bgr"],
     [cairo_subpixel_order |-> "CAIRO_SUBPIXEL_ORDER_VRGB", clutter_font_subpixel_order |-> "vrgb"],
     [cairo_subpixel_order |-> "CAIRO_SUBPIXEL_ORDER_VBGR", clutter_font_subpixel_order |-> "vbgr"] >>

\* guint i = <gint enum>; i < G_N_ELEMENTS (table): a negative value
\* converts to a guint above every table size
InTable(i, table) == i >= 0 /\ i < Len(table)

\* variant: an index outside a table is clamped to the nearest entry
get_font_gsettings_clamped(read) ==
  LET Clamp(i, table) == IF i < 0 THEN 1
                         ELSE IF i >= Len(table) THEN Len(table) ELSE i + 1
      h == hintings[Clamp(read.hinting, hintings)]
      a == antialiasings[Clamp(read.antialiasing, antialiasings)]
      r == rgba_orders[Clamp(read.rgba_order, rgba_orders)]
  IN  [cairo_antialias             |-> a.cairo_antialias,
       clutter_font_antialias      |-> a.clutter_font_antialias,
       cairo_hint_style            |-> h.cairo_hint_style,
       clutter_font_hint_style     |-> h.clutter_font_hint_style,
       cairo_subpixel_order        |-> r.cairo_subpixel_order,
       clutter_font_subpixel_order |->
         IF a.cairo_antialias = "CAIRO_ANTIALIAS_GRAY"
           THEN "none"
           ELSE r.clutter_font_subpixel_order]

\* variant: the subpixel order label is not overridden for grayscale
get_font_gsettings_keeps_rgba_order(read) ==
  LET h == IF InTable(read.hinting, hintings)
             THEN hintings[read.hinting + 1]
             ELSE [cairo_hint_style |-> "CAIRO_HINT_STYLE_DEFAULT",
                   clutter_font_hint_style |-> NULL]
      a == IF InTable(read.antialiasing, antialiasings)
             THEN antialiasings[read.antialiasing + 1]
             ELSE [cairo_antialias |-> "CAIRO_ANTIALIAS_DEFAULT",
                   clutter_font_antialias |-> 0 - 1]
      r == IF InTable(read.rgba_order, rgba_orders)
             THEN rgba_orders[read.rgba_order + 1]
             ELSE [cairo_subpixel_order |-> "CAIRO_SUBPIXEL_ORDER_DEFAULT",
                   clutter_font_subpixel_order |-> NULL]
  IN  [cairo_antialias             |-> a.cairo_antialias,
       clutter_font_antialias      |-> a.clutter_font_antialias,
       cairo_hint_style            |-> h.cairo_hint_style,
       clutter_font_hint_style     |-> h.clutter_font_hint_style,
       cairo_subpixel_order        |-> r.cairo_subpixel_order,
       clutter_font_subpixel_order |-> r.clutter_font_subpixel_order]

\* get_font_gsettings: `read' holds what g_settings_get_enum returns for
\* "font-hinting", "font-antialiasing" and "font-rgba-order"
get_font_gsettings(read) ==
  LET h == IF InTable(read.hinting, hintings)
             THEN hintings[read.hinting + 1]
             ELSE [cairo_hint_style |-> "CAIRO_HINT_STYLE_DEFAULT",
                   clutter_font_hint_style |-> NULL]
      a == IF InTable(read.antialiasing, antialiasings)
             THEN antialiasings[read.antialiasing + 1]
             ELSE [cairo_antialias |-> "CAIRO_ANTIALIAS_DEFAULT",
                   clutter_font_antialias |-> 0 - 1]
      r == IF InTable(read.rgba_order, rgba_orders)
             THEN rgba_orders[read.rgba_order + 1]
             ELSE [cairo_subpixel_order |-> "CAIRO_SUBPIXEL_ORDER_DEFAULT",
                   clutter_font_subpixel_order |-> NULL]
  IN  [cairo_antialias             |-> a.cairo_antialias,
       clutter_font_antialias      |-> a.clutter_font_antialias,
       cairo_hint_style            |-> h.cairo_hint_style,
       clutter_font_hint_style     |-> h.clutter_font_hint_style,
       cairo_subpixel_order        |-> r.cairo_subpixel_order,
       clutter_font_subpixel_order |->
         IF a.cairo_antialias = "CAIRO_ANTIALIAS_GRAY"
           THEN "none"
           ELSE r.clutter_font_subpixel_order]

\* variant: the initial values are written through the store's properties
init_font_options_via_store(c, read) ==
  LET fs      == get_font_gsettings(read)
      hinting == IF fs.cairo_hint_style = "CAIRO_HINT_STYLE_NONE" THEN 0 ELSE 1
  IN  g_object_set(c, << Write("font-hinting",        hinting),
                         Write("font-hint-style",     fs.clutter_font_hint_style),
                         Write("font-antialias",      fs.clutter_font_antialias),
                         Write("font-subpixel-order", fs.clutter_font_subpixel_order) >>)

\* variant: cairo_font_options_set_hint_style is left out
init_font_options_no_hint_style(c, read) ==
  LET fs == get_font_gsettings(read)
  IN  clutter_backend_set_font_options(c,
        [CairoDefaultOptions EXCEPT !.antialias      = fs.cairo_antialias,
                                    !.subpixel_order = fs.cairo_subpixel_order])

init_font_options(c, read) ==
  LET fs == get_font_gsettings(read)
  IN  clutter_backend_set_font_options(c,
        [CairoDefaultOptions EXCEPT !.hint_style     = fs.cairo_hint_style,
                                    !.antialias      = fs.cairo_antialias,
                                    !.subpixel_order = fs.cairo_subpixel_order])

\* `read' holds what g_settings_get_int returns for "double-click" and
\* "drag-threshold"
sync_mouse_options(c, read) ==
  g_object_set(c, << Write("double-click-time", read.double_click),
                     Write("dnd-drag-threshold", read.drag_threshold) >>)

\* variant: "font-antialias" is written last
on_font_settings_change_event_antialias_last(c, read) ==
  LET fs      == get_font_gsettings(read)
      hinting == IF fs.cairo_hint_style = "CAIRO_HINT_STYLE_NONE" THEN 0 ELSE 1
  IN  g_object_set(c, << Write("font-hinting",        hinting),
                         Write("font-hint-style",     fs.clutter_font_hint_style),
                         Write("font-subpixel-order", fs.clutter_font_subpixel_order),
                         Write("font-antialias",      fs.clutter_font_antialias) >>)

on_font_settings_change_event(c, read) ==
  LET fs      == get_font_gsettings(read)
      hinting == IF fs.cairo_hint_style = "CAIRO_HINT_STYLE_NONE" THEN 0 ELSE 1
  IN  g_object_set(c, << Write("font-hinting",        hinting),
                         Write("font-hint-style",     fs.clutter_font_hint_style),
                         Write("font-antialias",      fs.clutter_font_antialias),
                         Write("font-subpixel-order", fs.clutter_font_subpixel_order) >>)

on_mouse_settings_change_event(c, read) == sync_mouse_options(c, read)

\* pointer_a11y_settings_flags_pair: GSettings key -> ClutterPointerA11yFlags
pointer_a11y_settings_flags_pair ==
  << [name |-> "secondary_click_enabled", flag |-> "CLUTTER_A11Y_SECONDARY_CLICK_ENABLED"],
     [name |-> "dwell_click_enabled",     flag |-> "CLUTTER_A11Y_DWELL_ENABLED"] >>

pointer_a11y_dwell_direction_from_setting(dwell_gesture_direction) ==
  CASE dwell_gesture_direction = "G_DESKTOP_MOUSE_DWELL_DIRECTION_LEFT" ->
         "CLUTTER_A11Y_DWELL_DIRECTION_LEFT"
    [] dwell_gesture_direction = "G_DESKTOP_MOUSE_DWELL_DIRECTION_RIGHT" ->
         "CLUTTER_A11Y_DWELL_DIRECTION_RIGHT"
    [] dwell_gesture_direction = "G_DESKTOP_MOUSE_DWELL_DIRECTION_UP" ->
         "CLUTTER_A11Y_DWELL_DIRECTION_UP"
    [] dwell_gesture_direction = "G_DESKTOP_MOUSE_DWELL_DIRECTION_DOWN" ->
         "CLUTTER_A11Y_DWELL_DIRECTION_DOWN"
    [] OTHER -> "CLUTTER_A11Y_DWELL_DIRECTION_NONE"

\* what the g_settings_get_* calls of sync_pointer_a11y_settings return when
\* self->mouse_a11y_settings is NULL and GLib's precondition checks reject
\* the call: FALSE, 0.0, 0 and, for an enum, -1
FailedA11yRead ==
  [secondary_click_enabled |-> FALSE,
   dwell_click_enabled     |-> FALSE,
   secondary_click_time    |-> 0,
   dwell_time              |-> 0,
   dwell_threshold         |-> 0,
   dwell_mode              |-> "-1",
   dwell_gesture_single    |-> "-1",
   dwell_gesture_double    |-> "-1",
   dwell_gesture_drag      |-> "-1",
   dwell_gesture_secondary |-> "-1"]

\* variant: pointer_a11y_settings.controls is not reset before the loop
sync_pointer_a11y_settings_keeps_flags(c, read, dies) ==
  IF c.self.mouse_a11y_settings = NULL /\ dies
    THEN [c EXCEPT !.crashed = TRUE]
  ELSE [c EXCEPT !.seat_a11y =
          [@ EXCEPT
             !.controls = @ \cup
                          { pointer_a11y_settings_flags_pair[i].flag :
                            i \in { j \in 1..Len(pointer_a11y_settings_flags_pair) :
                                    read[pointer_a11y_settings_flags_pair[j].name] } },
             !.secondary_click_delay = TruncDiv(1000 * read.secondary_click_time, 8),
             !.dwell_delay = TruncDiv(1000 * read.dwell_time, 8),
             !.dwell_threshold = read.dwell_threshold,
             !.dwell_mode = IF read.dwell_mode = "G_DESKTOP_MOUSE_DWELL_MODE_WINDOW"
                              THEN "CLUTTER_A11Y_DWELL_MODE_WINDOW"
                              ELSE "CLUTTER_A11Y_DWELL_MODE_GESTURE",
             !.dwell_gesture_single =
                pointer_a11y_dwell_direction_from_setting(read.dwell_gesture_single),
             !.dwell_gesture_double =
                pointer_a11y_dwell_direction_from_setting(read.dwell_gesture_double),
             !.dwell_gesture_drag =
                pointer_a11y_dwell_direction_from_setting(read.dwell_gesture_drag),
             !.dwell_gesture_secondary =
                pointer_a11y_dwell_direction_from_setting(read.dwell_gesture_secondary)]]

\* sync_pointer_a11y_settings: `read' holds what the g_settings_get_* calls
\* return, the two times in eighths of a second.  The function does not
\* test self->mouse_a11y_settings: on NULL either GLib's checks reject
\* every read (read = FailedA11yRead) or the process dies (dies).
sync_pointer_a11y_settings(c, read, dies) ==
  IF c.self.mouse_a11y_settings = NULL /\ dies
    THEN [c EXCEPT !.crashed = TRUE]
  ELSE [c EXCEPT !.seat_a11y =
          [@ EXCEPT
             !.controls = { pointer_a11y_settings_flags_pair[i].flag :
                            i \in { j \in 1..Len(pointer_a11y_settings_flags_pair) :
                                    read[pointer_a11y_settings_flags_pair[j].name] } },
             !.secondary_click_delay = TruncDiv(1000 * read.secondary_click_time, 8),
             !.dwell_delay = TruncDiv(1000 * read.dwell_time, 8),
             !.dwell_threshold = read.dwell_threshold,
             !.dwell_mode = IF read.dwell_mode = "G_DESKTOP_MOUSE_DWELL_MODE_WINDOW"
                              THEN "CLUTTER_A11Y_DWELL_MODE_WINDOW"
                              ELSE "CLUTTER_A11Y_DWELL_MODE_GESTURE",
             !.dwell_gesture_single =
                pointer_a11y_dwell_direction_from_setting(read.dwell_gesture_single),
             !.dwell_gesture_double =
                pointer_a11y_dwell_direction_from_setting(read.dwell_gesture_double),
             !.dwell_gesture_drag =
                pointer_a11y_dwell_direction_from_setting(read.dwell_gesture_drag),
             !.dwell_gesture_secondary =
                pointer_a11y_dwell_direction_from_setting(read.dwell_gesture_secondary)]]

on_mouse_a11y_settings_change_event(c, read) ==
  sync_pointer_a11y_settings(c, read, FALSE)

\* g_signal_connect (settings, "change-event", ...)
g_signal_connect(c, schema) ==
  [c EXCEPT !.signals = Append(@, Emission("g_signal_connect", schema, NoOptions))]

\* variant: the first missing schema ends the function
load_initial_settings_stops_at_missing(c, present, font, mouse) ==
  IF FONT \notin present THEN c
  ELSE LET c1 == g_signal_connect(
                   init_font_options([c EXCEPT !.self.font_settings = FONT], font),
                   FONT)
       IN  IF MOUSE \notin present THEN c1
           ELSE LET c2 == g_signal_connect(
                            sync_mouse_options(
                              [c1 EXCEPT !.self.mouse_settings = MOUSE], mouse),
                            MOUSE)
                IN  IF MOUSE_A11Y \notin present THEN c2
                    ELSE g_signal_connect(
                           [c2 EXCEPT !.self.mouse_a11y_settings = MOUSE_A11Y],
                           MOUSE_A11Y)

\* load_initial_settings: `present' holds the schemas
\* g_settings_schema_source_lookup finds
load_initial_settings(c, present, font, mouse) ==
  LET c1 == IF FONT \in present
              THEN g_signal_connect(
                     init_font_options([c EXCEPT !.self.font_settings = FONT], font),
                     FONT)
              ELSE c
      c2 == IF MOUSE \in present
              THEN g_signal_connect(
                     sync_mouse_options([c1 EXCEPT !.self.mouse_settings = MOUSE], mouse),
                     MOUSE)
              ELSE c1
  IN  IF MOUSE_A11Y \in present
        THEN g_signal_connect([c2 EXCEPT !.self.mouse_a11y_settings = MOUSE_A11Y],
                              MOUSE_A11Y)
        ELSE c2

clutter_settings_set_backend(c, present, font, mouse) ==
  load_initial_settings([c EXCEPT !.self.backend = "backend"], present, font, mouse)

clutter_settings_ensure_pointer_a11y_settings(c, read, dies) ==
  sync_pointer_a11y_settings(c, read, dies)

\* ----------------------------------------------------------------- inputs

\* GDK_DPI_SCALE: unset, "2.0", "0.5", "0" and an unparseable value
EnvValues == {<<>>, << <<"2", ".", "0">> >>, << <<"0", ".", "5">> >>, << <<"0">> >>,
              << <<"a", "b", "c">> >>}

\* every value of the three font enums up to MaxExcess past its table,
\* and -1
FontReads ==
  [hinting      : (0 - 1)..(Len(hintings) - 1 + MaxExcess),
   antialiasing : (0 - 1)..(Len(antialiasings) - 1 + MaxExcess),
   rgba_order   : (0 - 1)..(Len(rgba_orders) - 1 + MaxExcess)]

FontRead(h, a, r) == [hinting |-> h, antialiasing |-> a, rgba_order |-> r]

\* slight/grayscale/rgb, full/rgba/bgr, none/none/vbgr
SomeFontReads == {FontRead(1, 1, 1), FontRead(3, 2, 2), FontRead(0, 0, 4)}

MouseReads == {[double_click |-> 400, drag_threshold |-> 8],
               [double_click |-> 250, drag_threshold |-> 12]}

A11yReads ==
  {[secondary_click_enabled |-> TRUE,
    dwell_click_enabled     |-> FALSE,
    secondary_click_time    |-> 10,
    dwell_time              |-> 12,
    dwell_threshold         |-> 10,
    dwell_mode              |-> "G_DESKTOP_MOUSE_DWELL_MODE_WINDOW",
    dwell_gesture_single    |-> "G_DESKTOP_MOUSE_DWELL_DIRECTION_LEFT",
    dwell_gesture_double    |-> "G_DESKTOP_MOUSE_DWELL_DIRECTION_UP",
    dwell_gesture_drag      |-> "G_DESKTOP_MOUSE_DWELL_DIRECTION_DOWN",
    dwell_gesture_secondary |-> "G_DESKTOP_MOUSE_DWELL_DIRECTION_RIGHT"],
   [secondary_click_enabled |-> FALSE,
    dwell_click_enabled     |-> TRUE,
    secondary_click_time    |-> 4,
    dwell_time              |-> 3,
    dwell_threshold         |-> 15,
    dwell_mode              |-> "G_DESKTOP_MOUSE_DWELL_MODE_GESTURE",
    dwell_gesture_single    |-> "G_DESKTOP_MOUSE_DWELL_DIRECTION_RIGHT",
    dwell_gesture_double    |-> "4",
    dwell_gesture_drag      |-> "G_DESKTOP_MOUSE_DWELL_DIRECTION_LEFT",
    dwell_gesture_secondary |-> "G_DESKTOP_MOUSE_DWELL_DIRECTION_DOWN"]}

\* a seat whose settings an earlier sync (or another caller of
\* clutter_seat_set_pointer_a11y_settings) has filled in
SeatSettings ==
  [controls                |-> {"CLUTTER_A11Y_DWELL_ENABLED"},
   dwell_click_type        |-> "CLUTTER_A11Y_DWELL_CLICK_TYPE_PRIMARY",
   dwell_mode              |-> "CLUTTER_A11Y_DWELL_MODE_WINDOW",
   dwell_gesture_single    |-> "CLUTTER_A11Y_DWELL_DIRECTION_LEFT",
   dwell_gesture_double    |-> "CLUTTER_A11Y_DWELL_DIRECTION_UP",
   dwell_gesture_drag      |-> "CLUTTER_A11Y_DWELL_DIRECTION_DOWN",
   dwell_gesture_secondary |-> "CLUTTER_A11Y_DWELL_DIRECTION_RIGHT",
   secondary_click_delay   |-> 1200,
   dwell_delay             |-> 1000,
   dwell_threshold         |-> 10]

\* values inside each property's GParamSpec range
SomeValues(name) ==
  CASE name = "double-click-time"     -> {400}
    [] name = "double-click-distance" -> {10}
    [] name = "dnd-drag-threshold"    -> {16}
    [] name = "long-press-duration"   -> {800}
    [] name = "password-hint-time"    -> {600}
    [] name = "font-name"             -> {NULL, "", "Mono 10"}
    [] name = "font-antialias"        -> {0, 1}
    [] name = "font-hinting"          -> {1}
    [] name = "font-hint-style"       -> {"hintfull"}
    [] name = "font-subpixel-order"   -> {"rgb"}
    [] name = "font-dpi"              -> {0 - 1, 0, 98304}
    [] name = "unscaled-font-dpi"     -> {0 - 1, 0, 98304}

\* every value of the four font option properties, and strings outside the
\* documented ones
FontValues(name) ==
  CASE name = "font-antialias"      -> {0 - 1, 0, 1}
    [] name = "font-hinting"        -> {0 - 1, 0, 1}
    [] name = "font-hint-style"     -> {NULL, "hintnone", "hintslight", "hintmedium",
                                        "hintfull", "hintbogus"}
    [] name = "font-subpixel-order" -> {NULL, "none", "rgb", "bgr", "vrgb", "vbgr",
                                        "rgba"}

\* the property lists an application passes to g_object_set
SomeBatches ==
  UNION { { <<Write(n, v)>> : v \in SomeValues(n) } : n \in Props }
  \cup { <<Write("font-name", "Mono 10"), Write("font-dpi", 98304)>>,
         <<Write("font-dpi", 1024), Write("double-click-distance", 10),
           Write("font-antialias", 0)>>,
         <<Write("font-hinting", 1), Write("font-hinting", 0)>>,
         <<Write("long-press-duration", 800), Write("password-hint-time", 600)>> }

FontBatches ==
  UNION { { <<Write(n, v)>> : v \in FontValues(n) } : n \in FontOptionProps }

\* values of the two DPI properties: the low end of the GParamSpec range,
\* 0, odd and even values and 96 * 1024 (the resolution of a larger value
\* doubled by GDK_DPI_SCALE does not fit the integers of the model)
DpiValues == {0 - 1, 0, 1, 1023, 2048, 98304}

DpiBatches ==
  { <<Write(n, v)>> : n \in DpiProps, v \in DpiValues }
  \cup { <<Write("font-dpi", 98304), Write("unscaled-font-dpi", 0 - 1)>>,
         <<Write("unscaled-font-dpi", 0), Write("font-dpi", 1023)>> }

\* ---------------------------------------------------------------- actions

Context ==
  [self |-> self, backend_font_options |-> backend_font_options,
   signals |-> <<>>, seat_a11y |-> seat_a11y, crashed |-> crashed]

Op(name, batch, present, font, mouse, a11y) ==
  [op |-> name, batch |-> batch, present |-> present, font |-> font,
   mouse |-> mouse, a11y |-> a11y, seat_before |-> seat_a11y]

\* one entry point ran and left context c behind
Ran(c, op) ==
  /\ self' = c.self
  /\ backend_font_options' = c.backend_font_options
  /\ signals' = c.signals
  /\ seat_a11y' = c.seat_a11y
  /\ crashed' = c.crashed
  /\ lastOp' = op
  /\ budget' = budget - 1
  /\ UNCHANGED scale_env

Running == budget > 0 /\ ~crashed

\* _clutter_settings_set_backend (settings, backend), once, at backend
\* construction
SetBackend(present, font, mouse) ==
  /\ Running
  /\ self.backend = NULL
  /\ Ran(clutter_settings_set_backend(Context, present, font, mouse),
         Op("set-backend", <<>>, present,
            IF FONT \in present THEN font ELSE NULL,
            IF MOUSE \in present THEN mouse ELSE NULL, NULL))

\* g_object_set (clutter_settings_get_default (), ...) by an application
ObjectSet(batch) ==
  /\ Running
  /\ Ran(g_object_set(Context, batch),
         Op("g_object_set", batch, {}, NULL, NULL, NULL))

\* "change-event" of the font GSettings
FontChangeEvent(font) ==
  /\ Running
  /\ self.font_settings # NULL
  /\ Ran(on_font_settings_change_event(Context, font),
         Op("font-change-event", <<>>, {}, font, NULL, NULL))

\* "change-event" of the mouse GSettings
MouseChangeEvent(mouse) ==
  /\ Running
  /\ self.mouse_settings # NULL
  /\ Ran(on_mouse_settings_change_event(Context, mouse),
         Op("mouse-change-event", <<>>, {}, NULL, mouse, NULL))

\* "change-event" of the mouse accessibility GSettings
MouseA11yChangeEvent(a11y) ==
  /\ Running
  /\ self.mouse_a11y_settings # NULL
  /\ Ran(on_mouse_a11y_settings_change_event(Context, a11y),
         Op("mouse-a11y-change-event", <<>>, {}, NULL, NULL, a11y))

\* clutter_settings_ensure_pointer_a11y_settings (settings, seat)
EnsurePointerA11ySettings(a11y, dies) ==
  /\ Running
  /\ IF self.mouse_a11y_settings # NULL
       THEN a11y \in A11yReads /\ ~dies
       ELSE a11y = FailedA11yRead
  /\ Ran(clutter_settings_ensure_pointer_a11y_settings(Context, a11y, dies),
         Op("ensure-pointer-a11y", <<>>, {}, NULL, NULL, a11y))

NoOp == [op |-> "init", batch |-> <<>>, present |-> {}, font |-> NULL,
         mouse |-> NULL, a11y |-> NULL, seat_before |-> SeatSettings]

Constructed(env, ops) ==
  /\ self = clutter_settings_init
  /\ scale_env = env
  /\ backend_font_options = NoOptions
  /\ signals = <<>>
  /\ seat_a11y = SeatSettings
  /\ crashed = FALSE
  /\ lastOp = NoOp
  /\ budget = ops

\* ---- Spec: the whole store, every entry point, a few values each

Init == \E env \in EnvValues : Constructed(env, MaxOps)

Next ==
  \/ \E present \in SUBSET Schemas, font \in SomeFontReads, mouse \in MouseReads :
       SetBackend(present, font, mouse)
  \/ \E batch \in SomeBatches : ObjectSet(batch)
  \/ \E font \in SomeFontReads : FontChangeEvent(font)
  \/ \E mouse \in MouseReads : MouseChangeEvent(mouse)
  \/ \E a11y \in A11yReads : MouseA11yChangeEvent(a11y)
  \/ \E a11y \in A11yReads \cup {FailedA11yRead}, dies \in BOOLEAN :
       EnsurePointerA11ySettings(a11y, dies)

Spec == Init /\ [][Next]_vars

\* ---- SpecFontSync: the font watcher over every platform value

InitFontSync == Constructed(<<>>, MaxSyncOps)

NextFontSync ==
  \/ \E present \in SUBSET Schemas, font \in FontReads, mouse \in MouseReads :
       SetBackend(present, font, mouse)
  \/ \E font \in FontReads : FontChangeEvent(font)

SpecFontSync == InitFontSync /\ [][NextFontSync]_vars

\* ---- SpecFont: the four font option properties over every value

InitFont == Constructed(<<>>, MaxFontOps)

NextFont ==
  \/ \E font \in SomeFontReads, mouse \in MouseReads :
       SetBackend({FONT}, font, mouse)
  \/ \E batch \in FontBatches : ObjectSet(batch)
  \/ \E font \in SomeFontReads : FontChangeEvent(font)

SpecFont == InitFont /\ [][NextFont]_vars

\* ---- SpecFontResync: change events that find the platform's font values
\* as they were last read

NextFontResync ==
  \/ \E font \in FontReads, mouse \in MouseReads :
       SetBackend(Schemas, font, mouse)
  \/ FontChangeEvent(lastOp.font)

SpecFontResync == InitFontSync /\ [][NextFontResync]_vars

\* ---- SpecDpi: the two DPI properties over their range, under every
\* GDK_DPI_SCALE value

InitDpi == \E env \in EnvValues : Constructed(env, MaxDpiOps)

NextDpi ==
  \/ \E font \in SomeFontReads, mouse \in MouseReads :
       SetBackend(Schemas, font, mouse)
  \/ \E batch \in DpiBatches : ObjectSet(batch)

SpecDpi == InitDpi /\ [][NextDpi]_vars

\* ------------------------------------------------------------- properties

\* what the backend observed of the last entry point: the font options
\* pushes and the signals emitted on it, in order
BackendView ==
  SelectSeq(signals, LAMBDA e : e.signal \notin {"notify", "g_signal_connect"})

Kinds(seq) == [i \in 1..Len(seq) |-> seq[i].signal]

\* the last entry point was one g_object_set call on an attached store
OneLogicalUpdate ==
  /\ lastOp.op \in {"g_object_set", "font-change-event", "mouse-change-event"}
  /\ self.backend # NULL

\* the properties that call wrote, in order
WrittenProps ==
  CASE lastOp.op = "g_object_set" ->
         [i \in 1..Len(lastOp.batch) |-> lastOp.batch[i].name]
    [] lastOp.op = "font-change-event" ->
         <<"font-hinting", "font-hint-style", "font-antialias", "font-subpixel-order">>
    [] lastOp.op = "mouse-change-event" ->
         <<"double-click-time", "dnd-drag-threshold">>

FieldLevelEffects == {"set-font-options", "font-changed", "resolution-changed"}

\* the field-level effect of one property write: none for the timing
\* properties
FieldEffect(name) ==
  CASE name = "font-name"       -> <<"font-changed">>
    [] name \in FontOptionProps -> <<"set-font-options">>
    [] name \in DpiProps        -> <<"resolution-changed">>
    [] OTHER                    -> <<>>

RECURSIVE FieldEffects(_)
FieldEffects(names) ==
  IF names = <<>> THEN <<>>
  ELSE FieldEffect(Head(names)) \o FieldEffects(Tail(names))

EnvFactor(env) ==
  CASE env = << <<"2", ".", "0">> >> -> [num |-> 2, den |-> 1]
    [] env = << <<"0", ".", "5">> >> -> [num |-> 1, den |-> 2]
    [] OTHER                   -> [num |-> 1, den |-> 1]

\* (dpi > 0 ? dpi / 1024 : 96.0) * factor, in units of 1/ResUnit
DerivedResolution(dpi, env) ==
  LET base == IF dpi > 0 THEN (dpi * ResUnit) \div 1024 ELSE 96 * ResUnit
  IN  (base * EnvFactor(env).num) \div EnvFactor(env).den

\* op is a g_object_set call that writes "font-dpi" or "unscaled-font-dpi"
WritesDpi(op) ==
  /\ op.op = "g_object_set"
  /\ \E i \in 1..Len(op.batch) : op.batch[i].name \in DpiProps

\* the value of the last DPI write of a property list
LastDpiValue(batch) ==
  LET last == CHOOSE i \in 1..Len(batch) :
                /\ batch[i].name \in DpiProps
                /\ \A j \in (i + 1)..Len(batch) : batch[j].name \notin DpiProps
  IN  batch[last].value

\* C2 as stated: in every reachable state, from construction on, resolution
\* is the value derived from font_dpi and the environment factor.
C2_ResolutionAlwaysDerived ==
  self.resolution = DerivedResolution(self.font_dpi, scale_env)

\* C2 amended: a constructed store holds resolution -1.0; every write of
\* "font-dpi" or "unscaled-font-dpi" sets resolution to the value derived
\* from the DPI written and the environment factor, and no other entry
\* point changes resolution or font_dpi.
C2_ResolutionDerivedOnDpiWrite ==
  /\ self.resolution = (0 - 1) * ResUnit
  /\ [][IF WritesDpi(lastOp')
          THEN self'.resolution = DerivedResolution(self'.font_dpi, scale_env')
          ELSE /\ self'.resolution = self.resolution
               /\ self'.font_dpi = self.font_dpi]_vars

C2_Witness ==
  /\ WritesDpi(lastOp)
  /\ scale_env = << <<"0", ".", "5">> >>
  /\ self.font_dpi = 98304
  /\ self.resolution = 48 * ResUnit

\* C3: a write of d to "font-dpi" or to "unscaled-font-dpi" stores d in
\* font_dpi (unscaled_font_dpi is not touched) and sets resolution to
\* (d > 0 ? d/1024 : 96.0) times the environment factor; a call that writes
\* only that property changes nothing else, whichever of the two names it
\* used.
C3_DpiWriteRecomputesResolution ==
  [][WritesDpi(lastOp') =>
       LET d == LastDpiValue(lastOp'.batch)
       IN  /\ self'.font_dpi = d
           /\ self'.unscaled_font_dpi = self.unscaled_font_dpi
           /\ self'.resolution = DerivedResolution(d, scale_env)
           /\ Len(lastOp'.batch) = 1 =>
                /\ self' = [self EXCEPT !.font_dpi = d,
                                        !.resolution = DerivedResolution(d, scale_env)]
                /\ backend_font_options' = backend_font_options
                /\ seat_a11y' = seat_a11y]_vars

C3_Witness ==
  /\ lastOp.op = "g_object_set"
  /\ lastOp.batch = <<Write("unscaled-font-dpi", 98304)>>
  /\ scale_env = << <<"2", ".", "0">> >>
  /\ self.font_dpi = 98304
  /\ self.resolution = 192 * ResUnit

\* C4: while no backend is attached the backend has been handed no font
\* options and the last entry point emitted nothing on it: no font options
\* push, no "font-changed", "resolution-changed" or "settings-changed".
C4_NoBackendNoEffects ==
  self.backend = NULL =>
    /\ BackendView = <<>>
    /\ backend_font_options = NoOptions

C4_Witness ==
  /\ self.backend = NULL
  /\ lastOp.op = "g_object_set"
  /\ lastOp.batch = <<Write("font-name", "Mono 10"), Write("font-dpi", 98304)>>
  /\ self.font_name = "Mono 10"
  /\ self.font_dpi = 98304

\* what the platform's font enums stand for: the cairo values
\* (out of range: the cairo default) ...
PlatformHintStyle(h) ==
  CASE h = 0 -> "CAIRO_HINT_STYLE_NONE"
    [] h = 1 -> "CAIRO_HINT_STYLE_SLIGHT"
    [] h = 2 -> "CAIRO_HINT_STYLE_MEDIUM"
    [] h = 3 -> "CAIRO_HINT_STYLE_FULL"
    [] OTHER -> "CAIRO_HINT_STYLE_DEFAULT"

PlatformAntialias(a) ==
  CASE a = 0 -> "CAIRO_ANTIALIAS_NONE"
    [] a = 1 -> "CAIRO_ANTIALIAS_GRAY"
    [] a = 2 -> "CAIRO_ANTIALIAS_SUBPIXEL"
    [] OTHER -> "CAIRO_ANTIALIAS_DEFAULT"

PlatformSubpixelOrder(r) ==
  CASE r \in {0, 1} -> "CAIRO_SUBPIXEL_ORDER_RGB"
    [] r = 2        -> "CAIRO_SUBPIXEL_ORDER_BGR"
    [] r = 3        -> "CAIRO_SUBPIXEL_ORDER_VRGB"
    [] r = 4        -> "CAIRO_SUBPIXEL_ORDER_VBGR"
    [] OTHER        -> "CAIRO_SUBPIXEL_ORDER_DEFAULT"

\* ... and the values of the store's four font option properties
TranslatedFontFields(read) ==
  [xft_hinting    |-> IF read.hinting = 0 THEN 0 ELSE 1,
   xft_hint_style |-> CASE read.hinting = 0 -> "hintnone"
                        [] read.hinting = 1 -> "hintslight"
                        [] read.hinting = 2 -> "hintmedium"
                        [] read.hinting = 3 -> "hintfull"
                        [] OTHER            -> NULL,
   xft_antialias  |-> CASE read.antialiasing = 0        -> 0
                        [] read.antialiasing \in {1, 2} -> 1
                        [] OTHER                        -> 0 - 1,
   xft_rgba       |-> CASE read.antialiasing = 1  -> "none"
                        [] read.rgba_order \in {0, 1} -> "rgb"
                        [] read.rgba_order = 2    -> "bgr"
                        [] read.rgba_order = 3    -> "vrgb"
                        [] read.rgba_order = 4    -> "vbgr"
                        [] OTHER                  -> NULL]

FontFields(s) ==
  [xft_hinting |-> s.xft_hinting, xft_hint_style |-> s.xft_hint_style,
   xft_antialias |-> s.xft_antialias, xft_rgba |-> s.xft_rgba]

\* C5 as stated: right after the attach the store's four font option
\* fields and its mouse timing fields hold the translated platform values
\* of every watcher whose schema is present.
C5_StoreSyncedAtAttach ==
  lastOp.op = "set-backend" =>
    /\ FONT \in lastOp.present =>
         FontFields(self) = TranslatedFontFields(lastOp.font)
    /\ MOUSE \in lastOp.present =>
         /\ self.double_click_time = lastOp.mouse.double_click
         /\ self.dnd_drag_threshold = lastOp.mouse.drag_threshold

\* C5 amended: at attach the font watcher hands the backend the font
\* options translated from the platform values (hint metrics left at the
\* cairo default) without writing the store's four font option fields, and
\* then subscribes; the mouse watcher writes the two timing fields through
\* one g_object_set and then subscribes; the accessibility watcher only
\* subscribes, the seat is not written.  A watcher whose schema is missing
\* does nothing.
C5_InitialSyncThenSubscribe ==
  [][lastOp'.op = "set-backend" =>
       LET present == lastOp'.present
       IN  /\ FontFields(self') = FontFields(self)
           /\ backend_font_options' =
                IF FONT \in present
                  THEN [hint_metrics   |-> "CAIRO_HINT_METRICS_DEFAULT",
                        hint_style     |-> PlatformHintStyle(lastOp'.font.hinting),
                        antialias      |-> PlatformAntialias(lastOp'.font.antialiasing),
                        subpixel_order |-> PlatformSubpixelOrder(lastOp'.font.rgba_order)]
                  ELSE backend_font_options
           /\ self'.double_click_time =
                IF MOUSE \in present THEN lastOp'.mouse.double_click
                                     ELSE self.double_click_time
           /\ self'.dnd_drag_threshold =
                IF MOUSE \in present THEN lastOp'.mouse.drag_threshold
                                     ELSE self.dnd_drag_threshold
           /\ seat_a11y' = seat_a11y
           /\ [i \in 1..Len(signals') |-> <<signals'[i].signal, signals'[i].detail>>] =
                (IF FONT \in present
                   THEN << <<"set-font-options", NULL>>, <<"g_signal_connect", FONT>> >>
                   ELSE <<>>)
                \o (IF MOUSE \in present
                      THEN << <<"notify", "double-click-time">>,
                              <<"notify", "dnd-drag-threshold">>,
                              <<"settings-changed", NULL>>,
                              <<"g_signal_connect", MOUSE>> >>
                      ELSE <<>>)
                \o (IF MOUSE_A11Y \in present
                      THEN << <<"g_signal_connect", MOUSE_A11Y>> >>
                      ELSE <<>>)]_vars

C5_Witness ==
  /\ lastOp.op = "set-backend"
  /\ lastOp.present = Schemas
  /\ lastOp.font = FontRead(1, 1, 1)
  /\ self.xft_antialias = 0 - 1
  /\ self.xft_hint_style = NULL
  /\ backend_font_options.antialias = "CAIRO_ANTIALIAS_GRAY"
  /\ backend_font_options.hint_style = "CAIRO_HINT_STYLE_SLIGHT"
  /\ self.double_click_time = 400

\* C6 as stated: a font change event that finds the values the
\* initialization read leaves the backend with the font options the
\* initialization gave it.
C6_ChangeEventRestoresInitialOptions ==
  [][(lastOp.op = "set-backend" /\ lastOp'.op = "font-change-event") =>
       backend_font_options' = backend_font_options]_vars

\* C6 amended: for the same platform values the two bundles agree in hint
\* style when the hinting value is in range (0-3), in antialias mode and
\* subpixel order when antialiasing is none (0) or is rgba (2) with an rgba
\* order in range (0-4), and in antialias mode when antialiasing is
\* grayscale (1), where the change event's bundle has the default subpixel
\* order; hint metrics are on after a change event and at the cairo
\* default after initialization.
C6_ChangeEventAgreesInRange ==
  [][(lastOp.op = "set-backend" /\ lastOp'.op = "font-change-event") =>
       LET read == lastOp'.font
           init == backend_font_options
           sync == backend_font_options'
       IN  /\ read = lastOp.font
           /\ init.hint_metrics = "CAIRO_HINT_METRICS_DEFAULT"
           /\ sync.hint_metrics = "CAIRO_HINT_METRICS_ON"
           /\ read.hinting \in 0..3 => sync.hint_style = init.hint_style
           /\ (read.antialiasing = 0
               \/ (read.antialiasing = 2 /\ read.rgba_order \in 0..4)) =>
                /\ sync.antialias = init.antialias
                /\ sync.subpixel_order = init.subpixel_order
           /\ read.antialiasing = 1 =>
                /\ sync.antialias = init.antialias
                /\ sync.subpixel_order = "CAIRO_SUBPIXEL_ORDER_DEFAULT"]_vars

C6_Witness ==
  /\ lastOp.op = "font-change-event"
  /\ lastOp.font = FontRead(3, 2, 2)
  /\ backend_font_options =
       [hint_metrics   |-> "CAIRO_HINT_METRICS_ON",
        hint_style     |-> "CAIRO_HINT_STYLE_FULL",
        antialias      |-> "CAIRO_ANTIALIAS_SUBPIXEL",
        subpixel_order |-> "CAIRO_SUBPIXEL_ORDER_BGR"]

\* C7: once the backend is attached with the mouse accessibility schema
\* missing, clutter_settings_ensure_pointer_a11y_settings is a no-op: the
\* process survives it and the seat's settings are what they were.
C7_EnsureWithoutSchemaIsNoOp ==
  (/\ lastOp.op = "ensure-pointer-a11y"
   /\ self.backend # NULL
   /\ self.mouse_a11y_settings = NULL) =>
    /\ ~crashed
    /\ seat_a11y = lastOp.seat_before

\* op is a g_object_set call that writes "font-name"
WritesFontName(op) ==
  /\ op.op = "g_object_set"
  /\ \E i \in 1..Len(op.batch) : op.batch[i].name = "font-name"

LastFontName(batch) ==
  LET last == CHOOSE i \in 1..Len(batch) :
                /\ batch[i].name = "font-name"
                /\ \A j \in (i + 1)..Len(batch) : batch[j].name # "font-name"
  IN  batch[last].value

\* C8 as stated: in every reachable state reading "font-name" yields a
\* non-empty string.
C8_FontNameNeverEmpty ==
  clutter_settings_get_property(self, "font-name") \notin {NULL, ""}

\* C8 amended: reading "font-name" yields "Sans 12" on a constructed store
\* and, after a write, exactly the value last written, an unset (NULL) or
\* empty value included: the store applies no fallback; no other entry
\* point changes it.
C8_FontNameIsLastWritten ==
  /\ clutter_settings_get_property(self, "font-name") = "Sans 12"
  /\ [][clutter_settings_get_property(self', "font-name") =
          IF WritesFontName(lastOp')
            THEN LastFontName(lastOp'.batch)
            ELSE clutter_settings_get_property(self, "font-name")]_vars

C8_Witness ==
  /\ lastOp.op = "g_object_set"
  /\ lastOp.batch = <<Write("font-name", NULL)>>
  /\ clutter_settings_get_property(self, "font-name") = NULL

\* the reference font options of a store: hint metrics on; hint style none
\* when no hint-style string is stored, else the hinting table's cairo
\* value for the stored string, else none; the subpixel order of the
\* stored label; antialias none when antialias is 0, else subpixel when the
\* subpixel order is not the default, else grayscale
ReferenceFontOptions(s) ==
  LET hint == IF s.xft_hinting >= 0 /\ s.xft_hint_style = NULL
                THEN "CAIRO_HINT_STYLE_NONE"
              ELSE IF \E i \in 1..Len(hintings) :
                        hintings[i].clutter_font_hint_style = s.xft_hint_style
                THEN hintings[CHOOSE i \in 1..Len(hintings) :
                       hintings[i].clutter_font_hint_style = s.xft_hint_style].cairo_hint_style
              ELSE "CAIRO_HINT_STYLE_NONE"
      sub  == CASE s.xft_rgba = "rgb"  -> "CAIRO_SUBPIXEL_ORDER_RGB"
                [] s.xft_rgba = "bgr"  -> "CAIRO_SUBPIXEL_ORDER_BGR"
                [] s.xft_rgba = "vrgb" -> "CAIRO_SUBPIXEL_ORDER_VRGB"
                [] s.xft_rgba = "vbgr" -> "CAIRO_SUBPIXEL_ORDER_VBGR"
                [] OTHER               -> "CAIRO_SUBPIXEL_ORDER_DEFAULT"
  IN  [hint_metrics   |-> "CAIRO_HINT_METRICS_ON",
       hint_style     |-> hint,
       antialias      |-> IF s.xft_antialias = 0 THEN "CAIRO_ANTIALIAS_NONE"
                          ELSE IF sub # "CAIRO_SUBPIXEL_ORDER_DEFAULT"
                            THEN "CAIRO_ANTIALIAS_SUBPIXEL"
                          ELSE "CAIRO_ANTIALIAS_GRAY",
       subpixel_order |-> sub]

\* the font options handed to the backend, in order
Pushes(sigs) ==
  LET p == SelectSeq(sigs, LAMBDA e : e.signal = "set-font-options")
  IN  [i \in 1..Len(p) |-> p[i].options]

\* C9 as stated: every font options bundle a font change event hands to
\* the backend is the bundle of the store as the event leaves it.
C9_EveryPushIsFinal ==
  lastOp.op = "font-change-event" =>
    \A i \in 1..Len(Pushes(signals)) :
      Pushes(signals)[i] = ReferenceFontOptions(self)

\* C9 amended: a font change event hands the backend one bundle per written
\* field, in write order (hinting, hint-style, antialias, subpixel-order):
\* the i-th is the bundle of the store with the first i fields updated, so
\* the first three may mix new and not-yet-updated fields; the last, which
\* the backend holds after the event, is the bundle of the store after the
\* whole batch, whose four fields are the translated platform values.
C9_LastPushIsFinal ==
  [][lastOp'.op = "font-change-event" =>
       LET pushed == Pushes(signals')
           s1 == [self EXCEPT !.xft_hinting = self'.xft_hinting]
           s2 == [s1 EXCEPT !.xft_hint_style = self'.xft_hint_style]
           s3 == [s2 EXCEPT !.xft_antialias = self'.xft_antialias]
       IN  /\ FontFields(self') = TranslatedFontFields(lastOp'.font)
           /\ Len(pushed) = 4
           /\ pushed[1] = ReferenceFontOptions(s1)
           /\ pushed[2] = ReferenceFontOptions(s2)
           /\ pushed[3] = ReferenceFontOptions(s3)
           /\ pushed[4] = ReferenceFontOptions(self')
           /\ backend_font_options' = ReferenceFontOptions(self')]_vars

C9_Witness ==
  /\ lastOp.op = "font-change-event"
  /\ lastOp.font = FontRead(1, 2, 1)
  /\ Len(Pushes(signals)) = 4
  /\ Pushes(signals)[1] # Pushes(signals)[4]
  /\ backend_font_options =
       [hint_metrics   |-> "CAIRO_HINT_METRICS_ON",
        hint_style     |-> "CAIRO_HINT_STYLE_SLIGHT",
        antialias      |-> "CAIRO_ANTIALIAS_SUBPIXEL",
        subpixel_order |-> "CAIRO_SUBPIXEL_ORDER_RGB"]

ReadFontSettings ==
  \/ lastOp.op = "font-change-event"
  \/ lastOp.op = "set-backend" /\ FONT \in lastOp.present

\* C11: every lookup of get_font_gsettings fails soft.  For every value the
\* platform reports, negative and beyond-table ones included, the hinting
\* lookup gives the table entry for 0-3 and default/unset otherwise, the
\* antialiasing lookup gives the documented (mode, flag) pair for 0-2 and
\* (default, -1) otherwise, the flag being -1 only out of range, and the
\* rgba-order lookup gives the table entry for 0-4 and default/unset
\* otherwise (its label is then subject to the grayscale override that
\* follows the lookups); the values reach the backend at attach and the
\* store on a change event, and the process survives.
C11_LookupsFailSoft ==
  ReadFontSettings =>
    LET read == lastOp.font
        fs   == get_font_gsettings(read)
        h    == read.hinting
        a    == read.antialiasing
        r    == read.rgba_order
    IN  /\ ~crashed
        /\ fs.cairo_hint_style = PlatformHintStyle(h)
        /\ fs.clutter_font_hint_style =
             (CASE h = 0 -> "hintnone"
                [] h = 1 -> "hintslight"
                [] h = 2 -> "hintmedium"
                [] h = 3 -> "hintfull"
                [] OTHER -> NULL)
        /\ <<fs.cairo_antialias, fs.clutter_font_antialias>> =
             (CASE a = 0 -> <<"CAIRO_ANTIALIAS_NONE", 0>>
                [] a = 1 -> <<"CAIRO_ANTIALIAS_GRAY", 1>>
                [] a = 2 -> <<"CAIRO_ANTIALIAS_SUBPIXEL", 1>>
                [] OTHER -> <<"CAIRO_ANTIALIAS_DEFAULT", 0 - 1>>)
        /\ fs.clutter_font_antialias = 0 - 1 <=> a \notin 0..2
        /\ fs.cairo_subpixel_order = PlatformSubpixelOrder(r)
        /\ fs.cairo_antialias # "CAIRO_ANTIALIAS_GRAY" =>
             fs.clutter_font_subpixel_order =
               (CASE r \in {0, 1} -> "rgb"
                  [] r = 2        -> "bgr"
                  [] r = 3        -> "vrgb"
                  [] r = 4        -> "vbgr"
                  [] OTHER        -> NULL)
        /\ lastOp.op = "set-backend" =>
             /\ backend_font_options.hint_style = fs.cairo_hint_style
             /\ backend_font_options.antialias = fs.cairo_antialias
             /\ backend_font_options.subpixel_order = fs.cairo_subpixel_order
        /\ lastOp.op = "font-change-event" =>
             /\ self.xft_hint_style = fs.clutter_font_hint_style
             /\ self.xft_antialias = fs.clutter_font_antialias
             /\ self.xft_rgba = fs.clutter_font_subpixel_order

\* a change event that reads a negative hinting value and antialiasing and
\* rgba-order values one past their tables
C11_Witness ==
  /\ lastOp.op = "font-change-event"
  /\ lastOp.font = FontRead(0 - 1, Len(antialiasings), Len(rgba_orders))
  /\ ~crashed
  /\ self.xft_hint_style = NULL
  /\ self.xft_antialias = 0 - 1
  /\ self.xft_rgba = NULL

\* C12: whenever the translated antialiasing mode is grayscale the
\* translated subpixel order label is "none", whatever the platform's
\* rgba-order value; after a font change event with grayscale antialiasing
\* the store's subpixel order is "none" and the bundle the backend holds
\* has antialias = grayscale and the default subpixel order.
C12_GrayscaleForcesNoSubpixelOrder ==
  (/\ ReadFontSettings
   /\ get_font_gsettings(lastOp.font).cairo_antialias = "CAIRO_ANTIALIAS_GRAY") =>
    /\ get_font_gsettings(lastOp.font).clutter_font_subpixel_order = "none"
    /\ lastOp.op = "font-change-event" =>
         /\ self.xft_rgba = "none"
         /\ backend_font_options.antialias = "CAIRO_ANTIALIAS_GRAY"
         /\ backend_font_options.subpixel_order = "CAIRO_SUBPIXEL_ORDER_DEFAULT"

\* a change event that reads grayscale antialiasing and the rgb order
C12_Witness ==
  /\ lastOp.op = "font-change-event"
  /\ lastOp.font.antialiasing = 1
  /\ lastOp.font.rgba_order = 1
  /\ self.xft_rgba = "none"
  /\ backend_font_options.antialias = "CAIRO_ANTIALIAS_GRAY"
  /\ backend_font_options.subpixel_order = "CAIRO_SUBPIXEL_ORDER_DEFAULT"

\* the "change-event" subscriptions the last entry point made, in order
Subscriptions ==
  SelectSeq(signals, LAMBDA e : e.signal = "g_signal_connect")

\* C13: a schema missing at backend attach is not fatal and the three
\* watchers are independent.  Whatever subset of the three schemas is
\* missing, the attach completes, the GSettings pointer of each missing
\* watcher stays NULL and no "change-event" subscription is made for it,
\* and each watcher whose schema is present is created and subscribed,
\* once.
C13_MissingSchemaSkipsOnlyItsWatcher ==
  lastOp.op = "set-backend" =>
    /\ ~crashed
    /\ self.backend # NULL
    /\ self.font_settings = (IF FONT \in lastOp.present THEN FONT ELSE NULL)
    /\ self.mouse_settings = (IF MOUSE \in lastOp.present THEN MOUSE ELSE NULL)
    /\ self.mouse_a11y_settings =
         (IF MOUSE_A11Y \in lastOp.present THEN MOUSE_A11Y ELSE NULL)
    /\ { Subscriptions[i].detail : i \in 1..Len(Subscriptions) } = lastOp.present
    /\ Len(Subscriptions) = Cardinality(lastOp.present)

\* an attach that finds only the mouse schema
C13_Witness ==
  /\ lastOp.op = "set-backend"
  /\ lastOp.present = {MOUSE}
  /\ ~crashed
  /\ self.backend # NULL
  /\ self.font_settings = NULL
  /\ self.mouse_settings = MOUSE
  /\ self.mouse_a11y_settings = NULL
  /\ Len(Subscriptions) = 1

\* the last entry point was a pointer accessibility sync that ran to its end
SyncedPointerA11y ==
  /\ lastOp.op \in {"mouse-a11y-change-event", "ensure-pointer-a11y"}
  /\ ~crashed

\* the flags whose platform boolean is true
ReferenceControls(read) ==
  (IF read.secondary_click_enabled
     THEN {"CLUTTER_A11Y_SECONDARY_CLICK_ENABLED"} ELSE {})
  \cup (IF read.dwell_click_enabled THEN {"CLUTTER_A11Y_DWELL_ENABLED"} ELSE {})

\* left, right, up and down are kept, any other value is none
ReferenceDirection(d) ==
  IF d = "G_DESKTOP_MOUSE_DWELL_DIRECTION_LEFT" THEN "CLUTTER_A11Y_DWELL_DIRECTION_LEFT"
  ELSE IF d = "G_DESKTOP_MOUSE_DWELL_DIRECTION_RIGHT" THEN "CLUTTER_A11Y_DWELL_DIRECTION_RIGHT"
  ELSE IF d = "G_DESKTOP_MOUSE_DWELL_DIRECTION_UP" THEN "CLUTTER_A11Y_DWELL_DIRECTION_UP"
  ELSE IF d = "G_DESKTOP_MOUSE_DWELL_DIRECTION_DOWN" THEN "CLUTTER_A11Y_DWELL_DIRECTION_DOWN"
  ELSE "CLUTTER_A11Y_DWELL_DIRECTION_NONE"

\* C14: a pointer accessibility sync (change event or on-demand call)
\* starts from the seat's current bundle and writes back a bundle in which
\* only the managed fields changed: the control flags are exactly the flags
\* whose platform boolean is true, the two delays are the platform times in
\* milliseconds, the threshold is the platform's, the dwell mode is window
\* for window and gesture for every other value, each of the four dwell
\* directions is left/right/up/down as read and none for any other value,
\* and every other field is what it was.
C14_SyncWritesOnlyManagedFields ==
  SyncedPointerA11y =>
    LET read == lastOp.a11y
    IN  seat_a11y =
          [lastOp.seat_before EXCEPT
             !.controls = ReferenceControls(read),
             !.secondary_click_delay = 125 * read.secondary_click_time,
             !.dwell_delay = 125 * read.dwell_time,
             !.dwell_threshold = read.dwell_threshold,
             !.dwell_mode =
                IF read.dwell_mode = "G_DESKTOP_MOUSE_DWELL_MODE_WINDOW"
                  THEN "CLUTTER_A11Y_DWELL_MODE_WINDOW"
                  ELSE "CLUTTER_A11Y_DWELL_MODE_GESTURE",
             !.dwell_gesture_single = ReferenceDirection(read.dwell_gesture_single),
             !.dwell_gesture_double = ReferenceDirection(read.dwell_gesture_double),
             !.dwell_gesture_drag = ReferenceDirection(read.dwell_gesture_drag),
             !.dwell_gesture_secondary =
                ReferenceDirection(read.dwell_gesture_secondary)]

\* a change event on a seat that had the dwell flag set: the platform has
\* only secondary click enabled, so the dwell flag is cleared, and the
\* dwell click type is the seat's own
C14_Witness ==
  /\ lastOp.op = "mouse-a11y-change-event"
  /\ ~crashed
  /\ lastOp.seat_before.controls = {"CLUTTER_A11Y_DWELL_ENABLED"}
  /\ seat_a11y.controls = {"CLUTTER_A11Y_SECONDARY_CLICK_ENABLED"}
  /\ seat_a11y.secondary_click_delay = 1250
  /\ seat_a11y.dwell_delay = 1500
  /\ seat_a11y.dwell_click_type = SeatSettings.dwell_click_type

\* C15: reading "font-dpi" gives the resolution times 1024, truncated, not
\* the stored DPI field.  On a freshly constructed store the read gives
\* -1024; after a write of d to either DPI property it gives d scaled by
\* the environment factor when d > 0 and 98304 (96 * 1024) scaled by the
\* environment factor when d <= 0, so it gives d back only when d > 0 and
\* no environment scale applies.
C15_FontDpiReadsResolution ==
  LET read == clutter_settings_get_property(self, "font-dpi")
      f    == EnvFactor(scale_env)
  IN  /\ read = TruncDiv(self.resolution * 1024, ResUnit)
      /\ lastOp.op = "init" => read = 0 - 1024
      /\ WritesDpi(lastOp) =>
           LET d    == LastDpiValue(lastOp.batch)
               base == IF d > 0 THEN d ELSE 98304
           IN  /\ self.font_dpi = d
               /\ read = TruncDiv(base * f.num, f.den)
               /\ read = d <=> (d > 0 /\ f.num = f.den)

\* a write of -1 to "font-dpi" with GDK_DPI_SCALE unset: the stored field
\* is -1 and the read gives 98304
C15_Witness ==
  /\ lastOp.op = "g_object_set"
  /\ lastOp.batch = <<Write("font-dpi", 0 - 1)>>
  /\ scale_env = <<>>
  /\ self.font_dpi = 0 - 1
  /\ clutter_settings_get_property(self, "font-dpi") = 98304

====
